---- MODULE Spec2Model ----
(***************************************************************************)
(* pyppeteer/execution_context.py: ExecutionContext and JSHandle driven by *)
(* a caller over a recording RPC client.  Every `await client.send(...)`   *)
(* is a suspension point: the request is appended to the client's log in   *)
(* the step that reaches it, and the coroutine resumes in a later step     *)
(* when the response (or a failure) is delivered.  Responses of the calls  *)
(* in flight may be delivered in any order.                                *)
(***************************************************************************)
EXTENDS Integers, Sequences, FiniteSets

VARIABLES handles, held, calls, log

vars == <<handles, held, calls, log>>

\* ---------------------------------------------------------------- bounds
MaxCalls == 2        \* operations the caller starts in one behaviour
MaxInFlight == 2     \* coroutines suspended at the same time
MaxHandles == 4      \* JSHandle objects constructed in one behaviour
MaxArgs == 2         \* length of *args

Contexts == {1, 2}                 \* contextId of the ExecutionContexts
PropNames == {"x", "y"}            \* property names the remote runtime lists
AskNames == {"x"}                  \* property names the caller asks for
Kinds == {"obj", "num", "unser"}   \* remote values a descriptor can stand for
ResultKinds == {"obj", "num"}      \* results of an evaluation
PropKinds == {"obj"}               \* values of the listed properties

\* A missing dict key (dict.get gives None); '' and a missing objectId are
\* both falsy and are both written 0.
None == "None"
NoObjectId == 0

\* ------------------------------------------------- remote object descriptors
\* The descriptor the remote runtime sends for a value of kind k; a live
\* object gets the objectId oid, which the runtime allocates afresh for every
\* reference it hands out.
RemoteObject(k, oid) ==
    CASE k = "obj"   -> [type |-> "object", subtype |-> None, value |-> None,
                         unserializableValue |-> None, objectId |-> oid]
      [] k = "num"   -> [type |-> "number", subtype |-> None, value |-> "5",
                         unserializableValue |-> None, objectId |-> NoObjectId]
      [] k = "unser" -> [type |-> "number", subtype |-> None, value |-> None,
                         unserializableValue |-> "Infinity", objectId |-> NoObjectId]
      \* a descriptor that carries a sentinel and an objectId at once
      [] k = "unserobj" -> [type |-> "number", subtype |-> None, value |-> None,
                            unserializableValue |-> "NaN", objectId |-> oid]

\* The by-value serialisation the runtime returns for the object oid.
ByValue(oid) ==
    [type |-> "object", subtype |-> None, value |-> <<"o1", "o2", "o3", "o4", "o5", "o6">>[oid],
     unserializableValue |-> None, objectId |-> NoObjectId]

\* Python truthiness of remoteObject.get('objectId') and of
\* remoteObject.get('unserializableValue').
HasObjectId(remoteObject) == remoteObject.objectId # NoObjectId
HasUnserializable(remoteObject) == remoteObject.unserializableValue # None

\* helper.valueFromRemoteObject: the sentinel if the descriptor carries one,
\* else its value (None for undefined).
valueFromRemoteObject(remoteObject) ==
    IF HasUnserializable(remoteObject)
    THEN (IF remoteObject.unserializableValue = "Infinity" THEN "inf"
          ELSE IF remoteObject.unserializableValue = "-Infinity" THEN "-inf"
          ELSE remoteObject.unserializableValue)
    ELSE remoteObject.value

\* JSHandle.__init__: the object built by the handle factory of context ctx
\* for remoteObject; `by` records the call that had it built (0: the caller).
JSHandle(ctx, remoteObject, by) ==
    [context |-> ctx, remoteObject |-> remoteObject, disposed |-> FALSE, by |-> by]

\* ------------------------------------------------------------- arguments
\* An element of *args: a Python value or a JSHandle (by its index).
PyArg(v) == [isHandle |-> FALSE, py |-> v, h |-> 0]
HandleArg(h) == [isHandle |-> TRUE, py |-> None, h |-> h]

\* The failures of this layer are all ElementHandleError; the kind is the
\* message: CrossContextHandle 'JSHandles can be evaluated only in the context
\* they were created!', DisposedHandleUse 'JSHandle is disposed!' and
\* 'Prototype JSHandle is disposed!', PrototypeNotObject 'Prototype JSHandle
\* must not be referencing primitive value', EvaluationFailed 'Evaluation
\* failed: ...'.  TransportFailure is an exception raised by client.send and
\* KeyError the missing key of getProperty's properties[propertyName].
Raise(kind) == [raise |-> kind]
Raises(r) == "raise" \in DOMAIN r

\* ExecutionContext._convertArgument, with self = the context ctx.
_convertArgument_NoContextCheck(ctx, arg) ==
    IF ~arg.isHandle
    THEN (IF arg.py = "inf" THEN [unserializableValue |-> "Infinity"]
          ELSE IF arg.py = "-inf" THEN [unserializableValue |-> "-Infinity"]
          ELSE [value |-> arg.py])
    ELSE LET objectHandle == handles[arg.h] IN
         IF objectHandle.disposed THEN Raise("DisposedHandleUse")
         ELSE IF HasUnserializable(objectHandle.remoteObject)
         THEN [unserializableValue |-> objectHandle.remoteObject.unserializableValue]
         ELSE IF ~HasObjectId(objectHandle.remoteObject)
         THEN [value |-> objectHandle.remoteObject.value]
         ELSE [objectId |-> objectHandle.remoteObject.objectId]

_convertArgument_NoDisposedCheck(ctx, arg) ==
    IF ~arg.isHandle
    THEN (IF arg.py = "inf" THEN [unserializableValue |-> "Infinity"]
          ELSE IF arg.py = "-inf" THEN [unserializableValue |-> "-Infinity"]
          ELSE [value |-> arg.py])
    ELSE LET objectHandle == handles[arg.h] IN
         IF objectHandle.context # ctx THEN Raise("CrossContextHandle")
         ELSE IF HasUnserializable(objectHandle.remoteObject)
         THEN [unserializableValue |-> objectHandle.remoteObject.unserializableValue]
         ELSE IF ~HasObjectId(objectHandle.remoteObject)
         THEN [value |-> objectHandle.remoteObject.value]
         ELSE [objectId |-> objectHandle.remoteObject.objectId]

_convertArgument_InfAsValue(ctx, arg) ==
    IF ~arg.isHandle
    THEN [value |-> arg.py]
    ELSE LET objectHandle == handles[arg.h] IN
         IF objectHandle.context # ctx THEN Raise("CrossContextHandle")
         ELSE IF objectHandle.disposed THEN Raise("DisposedHandleUse")
         ELSE IF HasUnserializable(objectHandle.remoteObject)
         THEN [unserializableValue |-> objectHandle.remoteObject.unserializableValue]
         ELSE IF ~HasObjectId(objectHandle.remoteObject)
         THEN [value |-> objectHandle.remoteObject.value]
         ELSE [objectId |-> objectHandle.remoteObject.objectId]

_convertArgument_ObjectIdFirst(ctx, arg) ==
    IF ~arg.isHandle
    THEN (IF arg.py = "inf" THEN [unserializableValue |-> "Infinity"]
          ELSE IF arg.py = "-inf" THEN [unserializableValue |-> "-Infinity"]
          ELSE [value |-> arg.py])
    ELSE LET objectHandle == handles[arg.h] IN
         IF objectHandle.context # ctx THEN Raise("CrossContextHandle")
         ELSE IF objectHandle.disposed THEN Raise("DisposedHandleUse")
         ELSE IF HasObjectId(objectHandle.remoteObject)
         THEN [objectId |-> objectHandle.remoteObject.objectId]
         ELSE IF HasUnserializable(objectHandle.remoteObject)
         THEN [unserializableValue |-> objectHandle.remoteObject.unserializableValue]
         ELSE [value |-> objectHandle.remoteObject.value]

_convertArgument(ctx, arg) ==
    IF ~arg.isHandle
    THEN (IF arg.py = "inf" THEN [unserializableValue |-> "Infinity"]
          ELSE IF arg.py = "-inf" THEN [unserializableValue |-> "-Infinity"]
          ELSE [value |-> arg.py])
    ELSE LET objectHandle == handles[arg.h] IN
         IF objectHandle.context # ctx THEN Raise("CrossContextHandle")
         ELSE IF objectHandle.disposed THEN Raise("DisposedHandleUse")
         ELSE IF HasUnserializable(objectHandle.remoteObject)
         THEN [unserializableValue |-> objectHandle.remoteObject.unserializableValue]
         ELSE IF ~HasObjectId(objectHandle.remoteObject)
         THEN [value |-> objectHandle.remoteObject.value]
         ELSE [objectId |-> objectHandle.remoteObject.objectId]

\* [self._convertArgument(arg) for arg in args]: the arguments are converted
\* in order and the first one that raises ends the comprehension.
ConvertedArgs(ctx, args) == [i \in 1..Len(args) |-> _convertArgument(ctx, args[i])]
RaisingArgs(ctx, args) == {i \in 1..Len(args) : Raises(_convertArgument(ctx, args[i]))}
FirstRaising(ctx, args) ==
    CHOOSE i \in RaisingArgs(ctx, args) : \A j \in RaisingArgs(ctx, args) : i <= j

\* ------------------------------------------------------ coroutines (calls)
\* One call of the caller: the operation, its receiver and arguments, where
\* the coroutine stands (pc: "run" while it executes, the name of the request
\* it awaits while suspended, "done" once it returned or raised), what it
\* raised (err), its local handle (tmp: evaluate's `handle`, getProperty's
\* `objectHandle`) and what it returned (retH a handle, retV a value, retS a
\* display string, retP a dict of handles).
NoProps == [n \in {} |-> 0]
NewCall(op, ctx, h, args, name) ==
    [id |-> Len(calls) + 1, op |-> op, ctx |-> ctx, h |-> h, args |-> args,
     name |-> name, pc |-> "run", err |-> "", tmp |-> 0,
     retH |-> 0, retV |-> None, retS |-> <<>>, retP |-> NoProps]

\* The working state of one step: the handles, the client's log and the call
\* that is executing.
Enter(call) == [handles |-> handles, log |-> log, call |-> call]

\* client.send(method, params): the request goes out and the coroutine is
\* suspended until the response is delivered.
send(s, method, params, at) ==
    [s EXCEPT !.log = Append(@, [call |-> s.call.id, method |-> method, params |-> params]),
              !.call.pc = at]

\* An exception leaving the outermost coroutine, and its normal return.
Throw(s, kind) == [s EXCEPT !.call.pc = "done", !.call.err = kind]
Return(s) == [s EXCEPT !.call.pc = "done"]
Running(s) == s.call.pc = "run"

\* self._objectHandleFactory(remoteObject) of context ctx: a new JSHandle.
objectHandleFactory(s, ctx, remoteObject) ==
    [s EXCEPT !.handles = Append(@, JSHandle(ctx, remoteObject, s.call.id))]

\* ---------------------------------------------------------------- JSHandle
\* helper.releaseObject(client, remoteObject): nothing to release without an
\* objectId, else one Runtime.releaseObject request.
releaseObject(s, remoteObject) ==
    IF ~HasObjectId(remoteObject) THEN s
    ELSE send(s, "Runtime.releaseObject", [objectId |-> remoteObject.objectId],
              "releaseObject")

\* The response to Runtime.releaseObject inside helper.releaseObject: a
\* failure saying the object is already gone is swallowed, any other failure
\* of the transport propagates.
releaseObject_resume(s, response) ==
    IF response.outcome = "TransportFailure" THEN Throw(s, "TransportFailure") ELSE s

\* JSHandle.dispose of handle h, up to its return or its suspension.
dispose_NoDisposedCheck(s, h) ==
    releaseObject([s EXCEPT !.handles[h].disposed = TRUE], s.handles[h].remoteObject)

dispose_FlagNotSet(s, h) ==
    IF s.handles[h].disposed THEN s
    ELSE releaseObject(s, s.handles[h].remoteObject)

dispose_Toggle(s, h) ==
    IF s.handles[h].disposed THEN [s EXCEPT !.handles[h].disposed = FALSE]
    ELSE releaseObject([s EXCEPT !.handles[h].disposed = TRUE], s.handles[h].remoteObject)

\* The flag is set only when the release returns without a request.
dispose_FlagAfterRelease(s, h) ==
    IF s.handles[h].disposed THEN s
    ELSE LET s1 == releaseObject(s, s.handles[h].remoteObject)
         IN IF Running(s1) THEN [s1 EXCEPT !.handles[h].disposed = TRUE] ELSE s1

dispose(s, h) ==
    IF s.handles[h].disposed THEN s
    ELSE releaseObject([s EXCEPT !.handles[h].disposed = TRUE], s.handles[h].remoteObject)

\* JSHandle.jsonValue of handle h, up to its return or its suspension.
jsonValue_AlwaysRemote(s, h) ==
    send(s, "Runtime.callFunctionOn",
         [functionDeclaration |-> "function() { return this; }",
          objectId |-> s.handles[h].remoteObject.objectId,
          returnByValue |-> TRUE, awaitPromiss |-> TRUE], "jsonValue")

jsonValue_ByReference(s, h) ==
    LET objectId == s.handles[h].remoteObject.objectId IN
    IF objectId # NoObjectId
    THEN send(s, "Runtime.callFunctionOn",
              [functionDeclaration |-> "function() { return this; }",
               objectId |-> objectId,
               returnByValue |-> FALSE, awaitPromiss |-> TRUE], "jsonValue")
    ELSE [s EXCEPT !.call.retV = valueFromRemoteObject(s.handles[h].remoteObject)]

jsonValue(s, h) ==
    LET objectId == s.handles[h].remoteObject.objectId IN
    IF objectId # NoObjectId
    THEN send(s, "Runtime.callFunctionOn",
              [functionDeclaration |-> "function() { return this; }",
               objectId |-> objectId,
               returnByValue |-> TRUE, awaitPromiss |-> TRUE], "jsonValue")
    ELSE [s EXCEPT !.call.retV = valueFromRemoteObject(s.handles[h].remoteObject)]

\* jsonValue resumed by the response of its by-value call.
jsonValue_resume(s, response) ==
    IF response.outcome = "TransportFailure" THEN Throw(s, "TransportFailure")
    ELSE [s EXCEPT !.call.retV = valueFromRemoteObject(response.result)]

\* JSHandle.getProperties of handle h: the request; a missing objectId is
\* sent as ''.
getProperties(s, h) ==
    send(s, "Runtime.getProperties",
         [objectId |-> s.handles[h].remoteObject.objectId, ownProperties |-> TRUE],
         "getProperties")

\* The loop of getProperties over response['result'], from entry i on: an
\* entry whose 'enumerable' is not truthy is skipped, every other one is
\* wrapped by the factory of the handle's context and stored under its name.
RECURSIVE getProperties_loop(_, _, _, _)
getProperties_loop_NoEnumerableFilter(s, ctx, result, i) ==
    IF i > Len(result) THEN s
    ELSE LET prop == result[i]
             s1 == objectHandleFactory(s, ctx, RemoteObject(prop.value, Len(s.handles) + 1))
             new == Len(s1.handles)
             old == s1.call.retP
             dict == [n \in DOMAIN old \cup {prop.name} |->
                         IF n = prop.name THEN new ELSE old[n]]
         IN getProperties_loop([s1 EXCEPT !.call.retP = dict], ctx, result, i + 1)

getProperties_loop(s, ctx, result, i) ==
    IF i > Len(result) THEN s
    ELSE LET prop == result[i] IN
         IF prop.enumerable # "True" THEN getProperties_loop(s, ctx, result, i + 1)
         ELSE LET s1 == objectHandleFactory(s, ctx,
                            RemoteObject(prop.value, Len(s.handles) + 1))
                  new == Len(s1.handles)
                  old == s1.call.retP
                  dict == [n \in DOMAIN old \cup {prop.name} |->
                              IF n = prop.name THEN new ELSE old[n]]
              IN getProperties_loop([s1 EXCEPT !.call.retP = dict], ctx, result, i + 1)

\* getProperties of handle h resumed by the response of its request.
getProperties_resume(s, h, response) ==
    IF response.outcome = "TransportFailure" THEN Throw(s, "TransportFailure")
    ELSE getProperties_loop(s, s.handles[h].context, response.result, 1)

\* JSHandle.toString.
toString(remoteObject) ==
    IF HasObjectId(remoteObject)
    THEN (IF remoteObject.subtype # None THEN <<"JSHandle@", remoteObject.subtype>>
          ELSE <<"JSHandle@", remoteObject.type>>)
    ELSE <<"JSHandle: ", valueFromRemoteObject(remoteObject)>>

\* -------------------------------------------------------- ExecutionContext
\* ExecutionContext.evaluateHandle of context ctx, up to its suspension: the
\* arguments are converted first, and a conversion that raises sends nothing.
evaluateHandle(s, ctx, pageFunction, args) ==
    IF RaisingArgs(ctx, args) # {}
    THEN Throw(s, _convertArgument(ctx, args[FirstRaising(ctx, args)]).raise)
    ELSE send(s, "Runtime.callFunctionOn",
              [functionDeclaration |-> pageFunction,
               executionContextId |-> ctx,
               arguments |-> ConvertedArgs(ctx, args),
               returnByValue |-> FALSE,
               awaitPromiss |-> TRUE], "evaluateHandle")

\* evaluateHandle resumed by the response: exceptionDetails raise, else the
\* factory wraps response['result'] and the new handle is returned (in tmp).
evaluateHandle_resume_NoExceptionCheck(s, ctx, response) ==
    IF response.outcome = "TransportFailure" THEN Throw(s, "TransportFailure")
    ELSE LET k == IF response.outcome = "exceptionDetails" THEN "obj" ELSE response.result
             s1 == objectHandleFactory(s, ctx, RemoteObject(k, Len(s.handles) + 1))
         IN [s1 EXCEPT !.call.tmp = Len(s1.handles)]

evaluateHandle_resume(s, ctx, response) ==
    IF response.outcome = "TransportFailure" THEN Throw(s, "TransportFailure")
    ELSE IF response.outcome = "exceptionDetails" THEN Throw(s, "EvaluationFailed")
    ELSE LET s1 == objectHandleFactory(s, ctx, RemoteObject(response.result, Len(s.handles) + 1))
         IN [s1 EXCEPT !.call.tmp = Len(s1.handles)]

\* ExecutionContext.queryObject up to its suspension.
queryObject_NoDisposedCheck(s, prototypeHandle) ==
    IF ~HasObjectId(s.handles[prototypeHandle].remoteObject)
    THEN Throw(s, "PrototypeNotObject")
    ELSE send(s, "Runtime.queryObject",
              [prototypeObjectId |-> s.handles[prototypeHandle].remoteObject.objectId],
              "queryObject")

queryObject(s, prototypeHandle) ==
    IF s.handles[prototypeHandle].disposed THEN Throw(s, "DisposedHandleUse")
    ELSE IF ~HasObjectId(s.handles[prototypeHandle].remoteObject)
    THEN Throw(s, "PrototypeNotObject")
    ELSE send(s, "Runtime.queryObject",
              [prototypeObjectId |-> s.handles[prototypeHandle].remoteObject.objectId],
              "queryObject")

\* queryObject resumed: the factory wraps response['objects'].
queryObject_resume(s, ctx, response) ==
    IF response.outcome = "TransportFailure" THEN Throw(s, "TransportFailure")
    ELSE LET s1 == objectHandleFactory(s, ctx, RemoteObject("obj", Len(s.handles) + 1))
         IN Return([s1 EXCEPT !.call.retH = Len(s1.handles)])

\* ExecutionContext.evaluate after `handle` (tmp) is bound: line 30 on, and
\* line 29 on.
\* The handle disposed is the one built last, not the call's own.
evaluate_dispose_Latest(s) ==
    LET s1 == dispose(s, Len(s.handles)) IN IF Running(s1) THEN Return(s1) ELSE s1

evaluate_dispose(s) ==
    LET s1 == dispose(s, s.call.tmp) IN IF Running(s1) THEN Return(s1) ELSE s1

evaluate_jsonValue(s) ==
    LET s1 == jsonValue(s, s.call.tmp) IN IF Running(s1) THEN evaluate_dispose(s1) ELSE s1

\* The receiver is disposed in place of the carrier.
getProperty_result_DisposesSelf(s) ==
    IF s.call.name \notin DOMAIN s.call.retP THEN Throw(s, "KeyError")
    ELSE LET s1 == dispose([s EXCEPT !.call.retH = s.call.retP[s.call.name]], s.call.h)
         IN IF Running(s1) THEN Return(s1) ELSE s1

\* JSHandle.getProperty after `properties` (retP) is bound: line 122 on.
getProperty_result(s) ==
    IF s.call.name \notin DOMAIN s.call.retP THEN Throw(s, "KeyError")
    ELSE LET s1 == dispose([s EXCEPT !.call.retH = s.call.retP[s.call.name]], s.call.tmp)
         IN IF Running(s1) THEN Return(s1) ELSE s1

\* ------------------------------------------------------------ the caller
MaxProps == 2        \* entries of a Runtime.getProperties response

InFlight == {c \in 1..Len(calls) : calls[c].pc # "done"}
CanCall == Len(calls) < MaxCalls /\ Cardinality(InFlight) < MaxInFlight

\* The caller passes the handles it holds (getProperty adds a Python string).
ArgValues == {HandleArg(h) : h \in held}
ArgLists == UNION {[1..n -> ArgValues] : n \in 0..MaxArgs}

\* The handles a finished call hands to the caller.
Returned(call) ==
    IF call.pc # "done" \/ call.err # "" THEN {}
    ELSE IF call.op = "getProperties" THEN {call.retP[n] : n \in DOMAIN call.retP}
    ELSE IF call.retH # 0 THEN {call.retH}
    ELSE {}

\* The step ends: the working state becomes the state.
Commit(s) ==
    /\ handles' = s.handles
    /\ log' = s.log
    /\ calls' = IF s.call.id > Len(calls) THEN Append(calls, s.call)
                ELSE [calls EXCEPT ![s.call.id] = s.call]
    /\ held' = held \cup Returned(s.call)

Resume(c) == [handles |-> handles, log |-> log, call |-> [calls[c] EXCEPT !.pc = "run"]]

Suspended(c, at) == c \in 1..Len(calls) /\ calls[c].pc = at

\* The responses the client can deliver.
Responses_callFunctionOn ==
    {[outcome |-> "TransportFailure", result |-> None],
     [outcome |-> "exceptionDetails", result |-> None]}
    \cup {[outcome |-> "result", result |-> k] : k \in ResultKinds}
Response_byValue(ok, objectId) ==
    [outcome |-> IF ok THEN "result" ELSE "TransportFailure", result |-> ByValue(objectId)]
PropEntries == [name : PropNames, enumerable : {"True", "False", None}, value : PropKinds]
Responses_getProperties ==
    {[outcome |-> "TransportFailure", result |-> <<>>]}
    \cup {[outcome |-> "result", result |-> r] :
            r \in UNION {[1..n -> PropEntries] : n \in 0..MaxProps}}
Responses_releaseObject ==
    {[outcome |-> o] : o \in {"released", "gone", "TransportFailure"}}
Responses_queryObject ==
    {[outcome |-> o] : o \in {"objects", "TransportFailure"}}

Enumerable(result) == {i \in 1..Len(result) : result[i].enumerable = "True"}

\* --- the caller starts an operation
Evaluate(ctx, args) ==
    /\ CanCall
    /\ Commit(evaluateHandle(Enter(NewCall("evaluate", ctx, 0, args, None)), ctx, "fn", args))

EvaluateHandle(ctx, args) ==
    /\ CanCall
    /\ Commit(evaluateHandle(Enter(NewCall("evaluateHandle", ctx, 0, args, None)), ctx, "fn", args))

QueryObject(ctx, h) ==
    /\ CanCall
    /\ Commit(queryObject(Enter(NewCall("queryObject", ctx, h, <<>>, None)), h))

GetProperty(h, name) ==
    /\ CanCall
    /\ LET ctx == handles[h].context
           args == <<HandleArg(h), PyArg(name)>>
       IN Commit(evaluateHandle(Enter(NewCall("getProperty", ctx, h, args, name)),
                                ctx, "carrier", args))

GetProperties(h) ==
    /\ CanCall
    /\ Commit(getProperties(Enter(NewCall("getProperties", handles[h].context, h, <<>>, None)), h))

JsonValue(h) ==
    /\ CanCall
    /\ LET s1 == jsonValue(Enter(NewCall("jsonValue", handles[h].context, h, <<>>, None)), h)
       IN Commit(IF Running(s1) THEN Return(s1) ELSE s1)

Dispose(h) ==
    /\ CanCall
    /\ LET s1 == dispose(Enter(NewCall("dispose", handles[h].context, h, <<>>, None)), h)
       IN Commit(IF Running(s1) THEN Return(s1) ELSE s1)

ToString(h) ==
    /\ CanCall
    /\ LET s == Enter(NewCall("toString", handles[h].context, h, <<>>, None))
       IN Commit(Return([s EXCEPT !.call.retS = toString(handles[h].remoteObject)]))

\* JSHandle.asElement: None.
AsElement(h) ==
    /\ CanCall
    /\ Commit(Return(Enter(NewCall("asElement", handles[h].context, h, <<>>, None))))

\* --- the client delivers a response and the coroutine runs on
Deliver_evaluateHandle(c, response) ==
    /\ Suspended(c, "evaluateHandle")
    /\ response.outcome = "result" => Len(handles) < MaxHandles
    /\ LET s1 == evaluateHandle_resume(Resume(c), calls[c].ctx, response)
       IN Commit(IF ~Running(s1) THEN s1
                 ELSE IF calls[c].op = "evaluate" THEN evaluate_jsonValue(s1)
                 ELSE IF calls[c].op = "getProperty" THEN getProperties(s1, s1.call.tmp)
                 ELSE Return([s1 EXCEPT !.call.retH = s1.call.tmp]))

Deliver_jsonValue(c, ok) ==
    /\ Suspended(c, "jsonValue")
    /\ LET h == IF calls[c].op = "evaluate" THEN calls[c].tmp ELSE calls[c].h
           response == Response_byValue(ok, handles[h].remoteObject.objectId)
           s1 == jsonValue_resume(Resume(c), response)
       IN Commit(IF ~Running(s1) THEN s1
                 ELSE IF calls[c].op = "evaluate" THEN evaluate_dispose(s1)
                 ELSE Return(s1))

Deliver_getProperties(c, response) ==
    /\ Suspended(c, "getProperties")
    /\ Len(handles) + Cardinality(Enumerable(response.result)) <= MaxHandles
    /\ LET h == IF calls[c].op = "getProperty" THEN calls[c].tmp ELSE calls[c].h
           s1 == getProperties_resume(Resume(c), h, response)
       IN Commit(IF ~Running(s1) THEN s1
                 ELSE IF calls[c].op = "getProperty" THEN getProperty_result(s1)
                 ELSE Return(s1))

Deliver_releaseObject(c, response) ==
    /\ Suspended(c, "releaseObject")
    /\ LET s1 == releaseObject_resume(Resume(c), response)
       IN Commit(IF ~Running(s1) THEN s1 ELSE Return(s1))

Deliver_queryObject(c, response) ==
    /\ Suspended(c, "queryObject")
    /\ response.outcome = "objects" => Len(handles) < MaxHandles
    /\ Commit(queryObject_resume(Resume(c), calls[c].ctx, response))

\* ------------------------------------------------------- the specification
\* Two contexts over one client; the caller holds one handle of each, built
\* by the contexts' factories and not yet disposed.
Init ==
    /\ \E k \in Kinds :
          handles = <<JSHandle(1, RemoteObject(k, 1), 0), JSHandle(2, RemoteObject("obj", 2), 0)>>
    /\ held = {1, 2}
    /\ calls = <<>>
    /\ log = <<>>

Next ==
    \/ \E ctx \in Contexts, args \in ArgLists : Evaluate(ctx, args)
    \/ \E ctx \in Contexts, args \in ArgLists : EvaluateHandle(ctx, args)
    \/ \E ctx \in Contexts, h \in held : QueryObject(ctx, h)
    \/ \E h \in held, name \in AskNames : GetProperty(h, name)
    \/ \E h \in held : GetProperties(h)
    \/ \E h \in held : JsonValue(h)
    \/ \E h \in held : Dispose(h)
    \/ \E h \in held : ToString(h)
    \/ \E h \in held : AsElement(h)
    \/ \E c \in 1..Len(calls), r \in Responses_callFunctionOn : Deliver_evaluateHandle(c, r)
    \/ \E c \in 1..Len(calls), ok \in BOOLEAN : Deliver_jsonValue(c, ok)
    \/ \E c \in 1..Len(calls), r \in Responses_getProperties : Deliver_getProperties(c, r)
    \/ \E c \in 1..Len(calls), r \in Responses_releaseObject : Deliver_releaseObject(c, r)
    \/ \E c \in 1..Len(calls), r \in Responses_queryObject : Deliver_queryObject(c, r)

Spec == Init /\ [][Next]_vars

\* ------------------------------------------------- reading the client's log
CallIds == 1..Len(calls)
HandleIds == 1..Len(handles)
ObjectIdOf(h) == handles[h].remoteObject.objectId
Requests(c) == {i \in 1..Len(log) : log[i].call = c}
ReleaseRequestsIn(l, objectId) ==
    {i \in 1..Len(l) : /\ l[i].method = "Runtime.releaseObject"
                       /\ l[i].params.objectId = objectId}
ReleaseRequests(objectId) == ReleaseRequestsIn(log, objectId)

\* The request names the object objectId: as the target of a call, as an
\* argument of a call, as the object whose properties are listed, or as the
\* prototype of a query.
Carries(request, objectId) ==
    \/ /\ request.method = "Runtime.callFunctionOn"
       /\ \/ /\ "objectId" \in DOMAIN request.params
             /\ request.params.objectId = objectId
          \/ /\ "arguments" \in DOMAIN request.params
             /\ \E k \in 1..Len(request.params.arguments) :
                   /\ "objectId" \in DOMAIN request.params.arguments[k]
                   /\ request.params.arguments[k].objectId = objectId
    \/ /\ request.method = "Runtime.getProperties"
       /\ request.params.objectId = objectId
    \/ /\ request.method = "Runtime.queryObject"
       /\ request.params.prototypeObjectId = objectId

\* A step in which the caller starts an operation, and the new call after it.
Starts == Len(calls') = Len(calls) + 1
Started == calls'[Len(calls')]
\* A step in which call c returns or raises.
Completes(c) == c \in 1..Len(calls') /\ calls'[c].pc = "done"
                /\ (c \in CallIds => calls[c].pc # "done")

Foreign(ctx, arg) == arg.isHandle /\ handles[arg.h].context # ctx
OwnDisposed(ctx, arg) == arg.isHandle /\ handles[arg.h].context = ctx /\ handles[arg.h].disposed

\* The handle a call disposes: its receiver for dispose, its local handle for
\* evaluate and getProperty.
DisposeTarget(c) == IF calls[c].op = "dispose" THEN calls[c].h ELSE calls[c].tmp

\* ------------------------------------------------------------------ claims
\* C1: every evaluate call whose evaluateHandle step returned a handle has
\* disposed that handle (and issued the release request for its objectId) by
\* the time it completes, also when jsonValue failed.
C1_EvaluateAlwaysDisposes ==
    \A c \in CallIds :
        (calls[c].op = "evaluate" /\ calls[c].pc = "done" /\ calls[c].tmp # 0) =>
            /\ handles[calls[c].tmp].disposed
            /\ HasObjectId(handles[calls[c].tmp].remoteObject) =>
                   \E i \in Requests(c) : i \in ReleaseRequests(ObjectIdOf(calls[c].tmp))

\* C2: getProperty, getProperties and jsonValue invoked on a handle whose
\* disposed flag is true fail with DisposedHandleUse.
C2_DisposedHandleRefused ==
    [][(Starts /\ Started.op \in {"getProperty", "getProperties", "jsonValue"}
               /\ handles[Started.h].disposed)
          => (Started.pc = "done" /\ Started.err = "DisposedHandleUse")]_vars

\* C3: once the release request of a handle's objectId has been issued, no
\* later request carries that objectId (as target or argument of a call, in a
\* get-properties request or in a prototype query).
C3_NoUseAfterDispose ==
    \A i, j \in 1..Len(log) :
        (i < j /\ log[i].method = "Runtime.releaseObject") =>
            ~Carries(log[j], log[i].params.objectId)

\* C4: of two dispose calls on the same handle, the later one returns at once
\* without failing and without a request, and no handle's objectId is
\* released more than once.
C4_SecondDisposeIsNoOp ==
    /\ \A h \in HandleIds :
          HasObjectId(handles[h].remoteObject) =>
              Cardinality(ReleaseRequests(ObjectIdOf(h))) <= 1
    /\ \A c, d \in CallIds :
          (c < d /\ calls[c].op = "dispose" /\ calls[d].op = "dispose"
                 /\ calls[c].h = calls[d].h) =>
              (calls[d].pc = "done" /\ calls[d].err = "" /\ Requests(d) = {})

C4_Witness ==
    \E c, d \in CallIds :
        /\ c < d /\ calls[c].op = "dispose" /\ calls[d].op = "dispose"
        /\ calls[c].h = calls[d].h
        /\ HasObjectId(handles[calls[c].h].remoteObject)
        /\ calls[c].pc = "done" /\ calls[d].pc = "done"
        /\ Cardinality(ReleaseRequests(ObjectIdOf(calls[c].h))) = 1

\* C5: whatever the interleaving of the dispose invocations on a handle, the
\* flag is set before the coroutine is suspended, so a handle with an
\* objectId is released exactly once if it is disposed and never otherwise,
\* and every handle dispose was invoked on is disposed.
C5_ExactlyOneRelease ==
    /\ \A h \in HandleIds :
          HasObjectId(handles[h].remoteObject) =>
              Cardinality(ReleaseRequests(ObjectIdOf(h))) = (IF handles[h].disposed THEN 1 ELSE 0)
    /\ \A c \in CallIds :
          calls[c].pc = "releaseObject" => handles[DisposeTarget(c)].disposed
    /\ \A c \in CallIds :
          calls[c].op = "dispose" => handles[calls[c].h].disposed

C5_Witness ==
    \E c, d \in CallIds :
        /\ c < d /\ calls[c].op = "dispose" /\ calls[d].op = "dispose"
        /\ calls[c].h = calls[d].h
        /\ calls[c].pc = "releaseObject" /\ calls[d].pc = "done"
        /\ Cardinality(ReleaseRequests(ObjectIdOf(calls[c].h))) = 1

\* The first argument of args that satisfies P.
First(args, P(_)) ==
    CHOOSE i \in 1..Len(args) : P(args[i]) /\ \A j \in 1..(i - 1) : ~P(args[j])

\* C6 as claimed: an evaluate or evaluateHandle call whose arguments contain
\* a handle of another context fails with CrossContextHandle and sends
\* nothing, whatever the other arguments are.
C6_ForeignHandleIsCrossContext ==
    [][(Starts /\ Started.op \in {"evaluate", "evaluateHandle"}
               /\ \E i \in 1..Len(Started.args) : Foreign(Started.ctx, Started.args[i]))
          => (Started.pc = "done" /\ Started.err = "CrossContextHandle" /\ log' = log)]_vars

\* C6 as amended: such a call fails at once, sends nothing and builds no
\* handle; it fails with CrossContextHandle unless a disposed handle of the
\* calling context comes before the first foreign handle, and then with
\* DisposedHandleUse.
C6_ForeignHandleSendsNothing ==
    [][(Starts /\ Started.op \in {"evaluate", "evaluateHandle"}
               /\ \E i \in 1..Len(Started.args) : Foreign(Started.ctx, Started.args[i]))
          => LET ctx == Started.ctx
                 args == Started.args
                 IsForeign(a) == Foreign(ctx, a)
                 f == First(args, IsForeign)
             IN /\ Started.pc = "done"
                /\ log' = log
                /\ handles' = handles
                /\ Started.err = IF \E j \in 1..(f - 1) : OwnDisposed(ctx, args[j])
                                 THEN "DisposedHandleUse" ELSE "CrossContextHandle"]_vars

C6_Witness ==
    \E c \in CallIds :
        /\ calls[c].op \in {"evaluate", "evaluateHandle"}
        /\ Len(calls[c].args) = 2
        /\ ~Foreign(calls[c].ctx, calls[c].args[1])
        /\ Foreign(calls[c].ctx, calls[c].args[2])
        /\ calls[c].pc = "done" /\ calls[c].err = "CrossContextHandle"
        /\ Requests(c) = {}

\* C7 as claimed: an evaluate, evaluateHandle or getProperty call whose
\* arguments contain a disposed handle of the calling context fails with
\* DisposedHandleUse and sends nothing.
C7_DisposedHandleIsDisposedUse ==
    [][(Starts /\ Started.op \in {"evaluate", "evaluateHandle", "getProperty"}
               /\ \E i \in 1..Len(Started.args) : OwnDisposed(Started.ctx, Started.args[i]))
          => (Started.pc = "done" /\ Started.err = "DisposedHandleUse" /\ log' = log)]_vars

\* C7 as amended: such a call fails at once, sends nothing and builds no
\* handle; it fails with DisposedHandleUse unless a foreign handle comes
\* before the first disposed handle of the calling context, and then with
\* CrossContextHandle.
C7_DisposedHandleSendsNothing ==
    [][(Starts /\ Started.op \in {"evaluate", "evaluateHandle", "getProperty"}
               /\ \E i \in 1..Len(Started.args) : OwnDisposed(Started.ctx, Started.args[i]))
          => LET ctx == Started.ctx
                 args == Started.args
                 IsOwnDisposed(a) == OwnDisposed(ctx, a)
                 d == First(args, IsOwnDisposed)
             IN /\ Started.pc = "done"
                /\ log' = log
                /\ handles' = handles
                /\ Started.err = IF \E j \in 1..(d - 1) : Foreign(ctx, args[j])
                                 THEN "CrossContextHandle" ELSE "DisposedHandleUse"]_vars

C7_Witness ==
    \E c \in CallIds :
        /\ calls[c].op \in {"evaluate", "evaluateHandle"}
        /\ \E i \in 1..Len(calls[c].args) :
              /\ OwnDisposed(calls[c].ctx, calls[c].args[i])
              /\ \E d \in 1..(c - 1) : calls[d].op = "dispose" /\ calls[d].h = calls[c].args[i].h
        /\ calls[c].pc = "done" /\ calls[c].err = "DisposedHandleUse"
        /\ Requests(c) = {}

\* C8: whenever getProperty completes after its carrier evaluation returned a
\* carrier handle, the carrier is disposed and its objectId released exactly
\* once, and on success the handle returned is live and is not the carrier.
C8_CarrierAlwaysDisposed ==
    [][\A c \in CallIds :
          (Completes(c) /\ calls'[c].op = "getProperty" /\ calls'[c].tmp # 0) =>
              LET carrier == handles'[calls'[c].tmp] IN
              /\ carrier.disposed
              /\ HasObjectId(carrier.remoteObject) =>
                     Cardinality(ReleaseRequestsIn(log', carrier.remoteObject.objectId)) = 1
              /\ calls'[c].err = "" =>
                     /\ calls'[c].retH # calls'[c].tmp
                     /\ ~handles'[calls'[c].retH].disposed]_vars

\* C9: a jsonValue call on a handle without objectId sends no request; on a
\* handle with an objectId it sends exactly one request, a call-function-on
\* targeted at that objectId with returnByValue true.
C9_JsonValueRequests ==
    \A c \in CallIds :
        calls[c].op = "jsonValue" =>
            IF ~HasObjectId(handles[calls[c].h].remoteObject)
            THEN Requests(c) = {}
            ELSE /\ Cardinality(Requests(c)) = 1
                 /\ \A i \in Requests(c) :
                       /\ log[i].method = "Runtime.callFunctionOn"
                       /\ log[i].params.objectId = ObjectIdOf(calls[c].h)
                       /\ log[i].params.returnByValue = TRUE
                       /\ "executionContextId" \notin DOMAIN log[i].params

C9_Witness ==
    \E c, d \in CallIds :
        /\ calls[c].op = "jsonValue" /\ calls[d].op = "jsonValue"
        /\ calls[c].pc = "done" /\ calls[d].pc = "done"
        /\ calls[c].err = "" /\ calls[d].err = ""
        /\ HasObjectId(handles[calls[c].h].remoteObject)
        /\ Cardinality(Requests(c)) = 1
        /\ calls[c].retV = ByValue(ObjectIdOf(calls[c].h)).value
        /\ ~HasObjectId(handles[calls[d].h].remoteObject)
        /\ calls[d].retV = valueFromRemoteObject(handles[calls[d].h].remoteObject)

\* C10: queryObject given a disposed handle fails with DisposedHandleUse, and
\* given a live handle without objectId with PrototypeNotObject; in both
\* cases it sends nothing and the handle factory is not invoked.
C10_QueryObjectRefusesInvalid ==
    [][(Starts /\ Started.op = "queryObject") =>
          LET prototypeHandle == handles[Started.h] IN
          /\ prototypeHandle.disposed =>
                /\ Started.pc = "done" /\ Started.err = "DisposedHandleUse"
                /\ log' = log /\ handles' = handles
          /\ (~prototypeHandle.disposed /\ ~HasObjectId(prototypeHandle.remoteObject)) =>
                /\ Started.pc = "done" /\ Started.err = "PrototypeNotObject"
                /\ log' = log /\ handles' = handles]_vars

C10_Witness ==
    \E c \in CallIds :
        /\ calls[c].op = "queryObject"
        /\ handles[calls[c].h].disposed
        /\ HasObjectId(handles[calls[c].h].remoteObject)
        /\ calls[c].pc = "done" /\ calls[c].err = "DisposedHandleUse"
        /\ Requests(c) = {}
        /\ \A h \in HandleIds : handles[h].by # c

\* C11: a getProperties call on a handle without objectId returns an empty
\* mapping and has no property handle built, whatever the client answers.
C11_NoObjectIdNoProperties ==
    \A c \in CallIds :
        (/\ calls[c].op = "getProperties"
         /\ ~HasObjectId(handles[calls[c].h].remoteObject)
         /\ calls[c].pc = "done" /\ calls[c].err = "") =>
            /\ DOMAIN calls[c].retP = {}
            /\ \A h \in HandleIds : handles[h].by # c

\* C12: for every get-properties response delivered to a getProperties call,
\* the keys of the mapping returned are exactly the names of the entries
\* marked enumerable, and the factory is invoked once per enumerable entry
\* (with that entry's value, for the receiver's context) and for no other.
C12_EnumerableKeysOnly ==
    [][\A c \in CallIds, r \in Responses_getProperties :
          (/\ calls[c].op = "getProperties"
           /\ r.outcome = "result"
           /\ Deliver_getProperties(c, r)) =>
              LET marked == Enumerable(r.result)
                  built == (Len(handles) + 1)..Len(handles')
              IN /\ calls'[c].pc = "done" /\ calls'[c].err = ""
                 /\ DOMAIN calls'[c].retP = {r.result[i].name : i \in marked}
                 /\ Cardinality(built) = Cardinality(marked)
                 /\ \A n \in DOMAIN calls'[c].retP :
                       /\ calls'[c].retP[n] \in built
                       /\ handles'[calls'[c].retP[n]].context = handles[calls[c].h].context
                       /\ ~handles'[calls'[c].retP[n]].disposed
                 /\ \A h \in built : handles'[h].by = c]_vars

C12_Witness ==
    \E c \in CallIds :
        /\ calls[c].op = "getProperties"
        /\ calls[c].pc = "done" /\ calls[c].err = ""
        /\ DOMAIN calls[c].retP = {"x"}
        /\ Cardinality({h \in HandleIds : handles[h].by = c}) = 1
        /\ ~handles[calls[c].retP["x"]].disposed

\* A step in which call c runs (it starts or it is resumed).
Moves(c) == c \in 1..Len(calls') /\ (c \in CallIds => calls'[c] # calls[c])
\* By the end of the step call c has called dispose on handle h: a dispose
\* call does so on its receiver as it starts; evaluate (line 30) and
\* getProperty (line 123) do so on their local handle once the awaits before
\* that line have returned. Such a call has then either returned without
\* failure or sent a release request, which it sends nowhere but in dispose
\* (the request stays in the log when the release fails).
Disposes(c, h) ==
    \/ calls'[c].op = "dispose" /\ calls'[c].h = h
    \/ /\ calls'[c].op \in {"evaluate", "getProperty"}
       /\ calls'[c].tmp = h
       /\ \/ calls'[c].pc = "done" /\ calls'[c].err = ""
          \/ \E i \in 1..Len(log') : /\ log'[i].call = c
                                     /\ log'[i].method = "Runtime.releaseObject"

\* C13: when the call-function-on response carries exception details, the
\* call fails with EvaluationFailed, no handle is built, and evaluate (and
\* getProperty) end there without any further request.
C13_ExceptionDetailsFail ==
    [][\A c \in CallIds :
          Deliver_evaluateHandle(c, [outcome |-> "exceptionDetails", result |-> None]) =>
              /\ calls'[c].pc = "done" /\ calls'[c].err = "EvaluationFailed"
              /\ handles' = handles
              /\ log' = log
              /\ held' = held]_vars

C13_Witness ==
    \E c \in CallIds :
        /\ calls[c].op = "evaluate"
        /\ calls[c].pc = "done" /\ calls[c].err = "EvaluationFailed"
        /\ Cardinality(Requests(c)) = 1
        /\ \A i \in Requests(c) : "executionContextId" \in DOMAIN log[i].params
        /\ \A h \in HandleIds : handles[h].by # c

\* C14: every handle is built live; a disposed handle stays disposed in every
\* step, and a handle becomes disposed only in a step of a call that passes
\* it to dispose.
C14_DisposedMonotonic ==
    /\ \A h \in HandleIds : ~handles[h].disposed
    /\ [][/\ \A h \in HandleIds : handles[h].disposed => handles'[h].disposed
          /\ \A h \in 1..Len(handles') :
                (handles'[h].disposed /\ (h \in HandleIds => ~handles[h].disposed)) =>
                    \E c \in 1..Len(calls') : Moves(c) /\ Disposes(c, h)]_vars

C14_Witness ==
    \E c, d \in CallIds :
        /\ c < d /\ calls[c].op = "dispose" /\ calls[c].pc = "done"
        /\ calls[d].op \in {"dispose", "jsonValue", "getProperties", "toString"}
        /\ calls[d].h = calls[c].h /\ calls[d].pc = "done"
        /\ handles[calls[c].h].disposed

\* ------------------------------------------- the argument encoding alone
\* evaluateHandle over every kind of argument: the Python values inf, -inf
\* and 1 and the handles held, the first of which may stand for any
\* descriptor, one with a sentinel and an objectId included.
PyValues == {"inf", "-inf", "1"}
ArgKinds == Kinds \cup {"unserobj"}
WideArgValues == {PyArg(v) : v \in PyValues} \cup {HandleArg(h) : h \in held}
WideArgLists == UNION {[1..n -> WideArgValues] : n \in 0..MaxArgs}

InitArgs ==
    /\ \E k \in ArgKinds :
          handles = <<JSHandle(1, RemoteObject(k, 1), 0), JSHandle(2, RemoteObject("obj", 2), 0)>>
    /\ held = {1, 2}
    /\ calls = <<>>
    /\ log = <<>>

NextArgs ==
    \/ \E ctx \in Contexts, args \in WideArgLists : EvaluateHandle(ctx, args)
    \/ \E h \in held : Dispose(h)
    \/ \E c \in 1..Len(calls), r \in Responses_releaseObject : Deliver_releaseObject(c, r)

SpecArgs == InitArgs /\ [][NextArgs]_vars

\* The requests of evaluateHandle: those with an argument list.
EvaluateRequests == {i \in 1..Len(log) : "arguments" \in DOMAIN log[i].params}

\* C15: an argument equal to positive infinity is sent as exactly
\* {unserializableValue: "Infinity"} and one equal to negative infinity as
\* exactly {unserializableValue: "-Infinity"}, without a value field.
C15_InfinityEncoding ==
    \A i \in EvaluateRequests :
        LET args == calls[log[i].call].args
            enc == log[i].params.arguments
        IN /\ Len(enc) = Len(args)
           /\ \A k \in 1..Len(args) :
                 /\ args[k] = PyArg("inf") =>
                       /\ enc[k] = [unserializableValue |-> "Infinity"]
                       /\ "value" \notin DOMAIN enc[k]
                 /\ args[k] = PyArg("-inf") =>
                       /\ enc[k] = [unserializableValue |-> "-Infinity"]
                       /\ "value" \notin DOMAIN enc[k]

C15_Witness ==
    \E i \in EvaluateRequests :
        /\ calls[log[i].call].args = <<PyArg("inf"), PyArg("-inf")>>
        /\ log[i].params.arguments =
              <<[unserializableValue |-> "Infinity"], [unserializableValue |-> "-Infinity"]>>

\* C16: every call-function-on request of evaluateHandle carries the id of
\* the context, the encoded arguments in argument order, returnByValue false
\* and the protocol's promise-awaiting flag, awaitPromise, set to true.
C16_RequestFields ==
    \A i \in EvaluateRequests :
        LET c == calls[log[i].call]
            params == log[i].params
        IN /\ log[i].method = "Runtime.callFunctionOn"
           /\ params.executionContextId = c.ctx
           /\ Len(params.arguments) = Len(c.args)
           /\ params.returnByValue = FALSE
           /\ "awaitPromise" \in DOMAIN params
           /\ params.awaitPromise = TRUE

\* The encoding of a live handle of the calling context, first match.
FirstMatch(remoteObject) ==
    IF HasUnserializable(remoteObject)
    THEN [unserializableValue |-> remoteObject.unserializableValue]
    ELSE IF ~HasObjectId(remoteObject)
    THEN [value |-> remoteObject.value]
    ELSE [objectId |-> remoteObject.objectId]

\* C17: when evaluateHandle sends its request, each handle among the
\* arguments is encoded by exactly one of unserializableValue, value and
\* objectId, the first that applies in that order; and a call whose first
\* failing argument is a handle both foreign and disposed fails with
\* CrossContextHandle.
C17_HandleEncoding ==
    [][(Starts /\ Started.op = "evaluateHandle") =>
          LET ctx == Started.ctx
              args == Started.args
          IN /\ Started.pc # "done" =>
                   /\ Len(log') = Len(log) + 1
                   /\ LET enc == log'[Len(log')].params.arguments
                      IN \A k \in 1..Len(args) :
                            args[k].isHandle =>
                                /\ handles[args[k].h].context = ctx
                                /\ ~handles[args[k].h].disposed
                                /\ enc[k] = FirstMatch(handles[args[k].h].remoteObject)
                                /\ Cardinality(DOMAIN enc[k] \cap
                                       {"unserializableValue", "value", "objectId"}) = 1
             /\ \A k \in 1..Len(args) :
                   (/\ Foreign(ctx, args[k]) /\ handles[args[k].h].disposed
                    /\ \A j \in 1..(k - 1) :
                          ~Foreign(ctx, args[j]) /\ ~OwnDisposed(ctx, args[j])) =>
                       /\ Started.pc = "done"
                       /\ Started.err = "CrossContextHandle"
                       /\ log' = log]_vars

C17_Witness ==
    \E i \in EvaluateRequests :
        \E k \in 1..Len(calls[log[i].call].args) :
            LET arg == calls[log[i].call].args[k] IN
            /\ arg.isHandle
            /\ HasUnserializable(handles[arg.h].remoteObject)
            /\ HasObjectId(handles[arg.h].remoteObject)
            /\ log[i].params.arguments[k] = [unserializableValue |-> "NaN"]

\* C18: when the release request of a dispose fails, be the failure swallowed
\* (the object is already gone) or propagated (the transport failed), the
\* handle is disposed afterwards; and a dispose on a handle already disposed
\* returns at once without failing, without a request and without a change
\* of any handle.
C18_FailedReleaseStillDisposed ==
    [][/\ \A c \in CallIds, r \in Responses_releaseObject :
             (/\ r.outcome \in {"gone", "TransportFailure"}
              /\ Deliver_releaseObject(c, r)) =>
                 /\ handles'[DisposeTarget(c)].disposed
                 /\ log' = log
                 /\ calls'[c].pc = "done"
                 /\ calls'[c].err = (IF r.outcome = "gone" THEN "" ELSE "TransportFailure")
       /\ (Starts /\ Started.op = "dispose" /\ handles[Started.h].disposed) =>
             /\ Started.pc = "done" /\ Started.err = ""
             /\ log' = log
             /\ handles' = handles]_vars

C18_Witness ==
    \E c, d \in CallIds :
        /\ c < d /\ calls[c].op = "dispose" /\ calls[d].op = "dispose"
        /\ calls[c].h = calls[d].h
        /\ calls[c].pc = "done" /\ calls[c].err = "TransportFailure"
        /\ calls[d].pc = "done" /\ calls[d].err = ""
        /\ handles[calls[c].h].disposed
        /\ Requests(d) = {}
        /\ Cardinality(ReleaseRequests(ObjectIdOf(calls[c].h))) = 1

\* The requests a step adds to the log.
NewRequests == (Len(log) + 1)..Len(log')

\* C19: a step of a call changes no handle but the one that call passes to
\* dispose, and sends a release request for the objectId of no other handle;
\* no step changes the descriptor or the context of a handle.
C19_Frame ==
    [][\A c \in 1..Len(calls') :
          Moves(c) =>
              \A h \in HandleIds :
                  /\ handles'[h].remoteObject = handles[h].remoteObject
                  /\ handles'[h].context = handles[h].context
                  /\ ~Disposes(c, h) =>
                        /\ handles'[h] = handles[h]
                        /\ HasObjectId(handles[h].remoteObject) =>
                              \A i \in NewRequests :
                                  i \notin ReleaseRequestsIn(log', ObjectIdOf(h))]_vars

C19_Witness ==
    \E c \in CallIds :
        /\ calls[c].op = "getProperty"
        /\ calls[c].pc = "done" /\ calls[c].err = ""
        /\ HasObjectId(handles[calls[c].h].remoteObject)
        /\ ~handles[calls[c].h].disposed
        /\ ReleaseRequests(ObjectIdOf(calls[c].h)) = {}
        /\ calls[c].tmp # 0 /\ handles[calls[c].tmp].disposed
        /\ \E i \in Requests(c) : Carries(log[i], ObjectIdOf(calls[c].h))

\* C20: whatever the order of the responses, an evaluate that returned has
\* sent, in this order, its call-function-on request, the by-value call on
\* its own result and the release of its own result (the first alone when
\* the result has no objectId); its result is released by that one request
\* and it released nothing else; and it returned the value of its own result.
C20_ConcurrentEvaluates ==
    \A c \in CallIds :
        (calls[c].op = "evaluate" /\ calls[c].pc = "done" /\ calls[c].err = "") =>
            LET own == handles[calls[c].tmp]
                oid == own.remoteObject.objectId
            IN /\ calls[c].tmp # 0 /\ own.by = c /\ own.disposed
               /\ \A i \in Requests(c) :
                     log[i].method = "Runtime.releaseObject" => log[i].params.objectId = oid
               /\ IF HasObjectId(own.remoteObject)
                  THEN /\ \E i1, i2, i3 \in 1..Len(log) :
                             /\ i1 < i2 /\ i2 < i3
                             /\ Requests(c) = {i1, i2, i3}
                             /\ log[i1].method = "Runtime.callFunctionOn"
                             /\ "executionContextId" \in DOMAIN log[i1].params
                             /\ log[i2].method = "Runtime.callFunctionOn"
                             /\ "objectId" \in DOMAIN log[i2].params
                             /\ log[i2].params.objectId = oid
                             /\ log[i2].params.returnByValue = TRUE
                             /\ ReleaseRequests(oid) = {i3}
                       /\ calls[c].retV = valueFromRemoteObject(ByValue(oid))
                  ELSE /\ Cardinality(Requests(c)) = 1
                       /\ \A i \in Requests(c) :
                             /\ log[i].method = "Runtime.callFunctionOn"
                             /\ "executionContextId" \in DOMAIN log[i].params
                       /\ calls[c].retV = valueFromRemoteObject(own.remoteObject)

C20_Witness ==
    \E c, d \in CallIds :
        /\ c < d /\ calls[c].op = "evaluate" /\ calls[d].op = "evaluate"
        /\ calls[c].ctx = calls[d].ctx
        /\ calls[c].pc = "done" /\ calls[c].err = ""
        /\ calls[d].pc = "done" /\ calls[d].err = ""
        /\ calls[c].tmp > calls[d].tmp /\ calls[d].tmp # 0
        /\ HasObjectId(handles[calls[c].tmp].remoteObject)
        /\ HasObjectId(handles[calls[d].tmp].remoteObject)
        /\ calls[c].retV # calls[d].retV
        /\ \E i \in Requests(c), j \in Requests(d) :
              /\ i > j
              /\ log[j].method = "Runtime.releaseObject"
              /\ log[i].method = "Runtime.callFunctionOn"

====
